---- MODULE Spec2Model ----
(***************************************************************************)
(* Model of the App component of src/src/App.tsx: the React state of the   *)
(* WebP converter, its event handlers, and the two asynchronous callbacks  *)
(* (FileReader.onload and Image.onload) the handlers register.             *)
(*                                                                         *)
(* One action is one run of a handler or callback on the browser's event   *)
(* loop.  The continuation of the await in convertImage (the finally       *)
(* block) is a microtask: it runs before any other task, so every task     *)
(* action is disabled while a continuation is pending.                     *)
(***************************************************************************)
EXTENDS Integers, Sequences, FiniteSets, TLC

VARIABLES
    selectedImage,   \* useState<string | null>(null), line 7
    convertedImage,  \* useState<string | null>(null), line 8
    isLoading,       \* useState(false), line 9
    selectedFormat,  \* useState<ImageFormat>('jpeg'), line 10
    quality,         \* useState(90), line 11
    isDragging,      \* useState(false), line 12
    reads,           \* the files of the FileReaders whose onload has not run, in creation order
    conversions,     \* the calls of convertImage that have not returned, in call order
    called,          \* the button handler the latest step ran, "none" if it ran neither
    link             \* the anchor the latest step clicked, null if it clicked none

vars == <<selectedImage, convertedImage, isLoading, selectedFormat, quality,
          isDragging, reads, conversions, called, link>>

\* The React state of the component
state == <<selectedImage, convertedImage, isLoading, selectedFormat, quality, isDragging>>

(***************************************************************************)
(* Bounds of the model.                                                    *)
(***************************************************************************)
\* Reads in flight at the same time; the number of acquisitions, conversions
\* and downloads of a behaviour is not bounded.
MaxPendingReads == 1

(***************************************************************************)
(* Values.                                                                 *)
(***************************************************************************)
\* null.  Every image value is a record, so that null compares with all of them.
NULL == [null |-> TRUE]

ImageFormat == {"jpeg", "jpg", "png"}

DefaultFormat == "jpeg"

MinQuality == 1
MaxQuality == 100
DefaultQuality == 90

\* The slider yields every integer of MinQuality..MaxQuality; the model
\* moves it between its two ends and the initial value.
Qualities == {MinQuality, DefaultQuality, MaxQuality}

\* Files the user can pick or drop.  The accept filter is advisory, so a
\* file whose bytes are not a decodable image can be acquired as well.
DecodableFiles == {"a.webp", "b.webp"}
Files == DecodableFiles \cup {"corrupt.webp"}

\* event.target.files?.[0] / e.dataTransfer.files when the gesture carries no file
NoFile == "nofile"

\* reader.readAsDataURL(file): the data URL embedding the file's bytes
readAsDataURL(file) == [data |-> file]

\* Whether the browser can decode img.src, i.e. whether img.onload fires
Decodes(src) == \E f \in DecodableFiles : src = readAsDataURL(f)

\* `image/${selectedFormat}`
MimeType(format) == "image/" \o format

\* quality / 100, as the fraction <<numerator, denominator>>
QualityFactor(q) == <<q, 100>>

\* canvas.toDataURL(type, q) of a canvas onto which img was drawn
toDataURL(img, type, q) == [img |-> img, type |-> type, q |-> q]

\* The output format a MIME type was built from
FormatOf(type) == CHOOSE format \in ImageFormat : MimeType(format) = type

\* FileName with the extension normalised, jpeg and jpg both saved as .jpg
FileNameNormalised(format) ==
    "converted-image." \o (IF format = "jpeg" THEN "jpg" ELSE format)

\* `converted-image.${selectedFormat}`
FileName(format) == "converted-image." \o format

\* s without its i-th element
Remove(s, i) == SubSeq(s, 1, i - 1) \o SubSeq(s, i + 1, Len(s))

(***************************************************************************)
(* Initial state: the useState initial values, nothing in flight.          *)
(***************************************************************************)
Init ==
    /\ selectedImage = NULL
    /\ convertedImage = NULL
    /\ isLoading = FALSE
    /\ selectedFormat = DefaultFormat
    /\ quality = DefaultQuality
    /\ isDragging = FALSE
    /\ reads = <<>>
    /\ conversions = <<>>
    /\ called = "none"
    /\ link = NULL

(***************************************************************************)
(* Event loop.                                                             *)
(***************************************************************************)
\* A conversion whose img.onload has run and resolved the promise, while
\* the continuation after the await has not run yet.
ContinuationPending ==
    \E i \in 1..Len(conversions) : conversions[i].state \in {"encoded", "skipped"}

\* A task (event handler or callback) runs only when no microtask is queued.
TaskMayRun == ~ContinuationPending

\* A step that runs neither button handler and clicks no anchor
NoButtonHandler ==
    /\ called' = "none"
    /\ link' = NULL

(***************************************************************************)
(* Acquisition.                                                            *)
(***************************************************************************)
\* processFile: create a FileReader, set its onload, start the read.
processFile(file) ==
    /\ Len(reads) < MaxPendingReads
    /\ reads' = Append(reads, file)

\* handleImageSelect: the change event of the file input.
handleImageSelect ==
    /\ TaskMayRun
    /\ \E file \in Files \cup {NoFile} :
          IF file # NoFile
          THEN processFile(file)
          ELSE UNCHANGED reads
    /\ NoButtonHandler
    /\ UNCHANGED <<state, conversions>>

\* ReaderOnload without setConvertedImage(null)
ReaderOnloadKeepsConverted(i) ==
    /\ TaskMayRun
    /\ selectedImage' = readAsDataURL(reads[i])
    /\ reads' = Remove(reads, i)
    /\ NoButtonHandler
    /\ UNCHANGED <<convertedImage, isLoading, selectedFormat, quality, isDragging, conversions>>

\* reader.onload of the i-th pending reader.  A read that fails never calls
\* onload (no onerror is set): its reader stays in reads.
ReaderOnload(i) ==
    /\ TaskMayRun
    /\ selectedImage' = readAsDataURL(reads[i])
    /\ convertedImage' = NULL
    /\ reads' = Remove(reads, i)
    /\ NoButtonHandler
    /\ UNCHANGED <<isLoading, selectedFormat, quality, isDragging, conversions>>

handleDragEnter ==
    /\ TaskMayRun
    /\ isDragging' = TRUE
    /\ NoButtonHandler
    /\ UNCHANGED <<selectedImage, convertedImage, isLoading, selectedFormat, quality,
                   reads, conversions>>

handleDragLeave ==
    /\ TaskMayRun
    /\ isDragging' = FALSE
    /\ NoButtonHandler
    /\ UNCHANGED <<selectedImage, convertedImage, isLoading, selectedFormat, quality,
                   reads, conversions>>

handleDragOver ==
    /\ TaskMayRun
    /\ NoButtonHandler
    /\ UNCHANGED <<state, reads, conversions>>

handleDrop ==
    /\ TaskMayRun
    /\ isDragging' = FALSE
    /\ \E file \in Files \cup {NoFile} :
          IF file # NoFile
          THEN processFile(file)
          ELSE UNCHANGED reads
    /\ NoButtonHandler
    /\ UNCHANGED <<selectedImage, convertedImage, isLoading, selectedFormat, quality,
                   conversions>>

(***************************************************************************)
(* Conversion settings.                                                    *)
(***************************************************************************)
\* onClick of a format button
setSelectedFormat(format) ==
    /\ TaskMayRun
    /\ selectedFormat' = format
    /\ NoButtonHandler
    /\ UNCHANGED <<selectedImage, convertedImage, isLoading, quality, isDragging,
                   reads, conversions>>

\* onChange of the range input
setQuality(q) ==
    /\ TaskMayRun
    /\ quality' = q
    /\ NoButtonHandler
    /\ UNCHANGED <<selectedImage, convertedImage, isLoading, selectedFormat, isDragging,
                   reads, conversions>>

(***************************************************************************)
(* Conversion.                                                             *)
(***************************************************************************)
\* convertImage without its guard on selectedImage
convertImageUnguarded ==
    /\ TaskMayRun
    /\ called' = "convertImage"
    /\ link' = NULL
    /\ isLoading' = TRUE
    /\ conversions' = Append(conversions,
           [img |-> selectedImage, format |-> selectedFormat,
            quality |-> quality, state |-> "decoding"])
    /\ UNCHANGED <<selectedImage, convertedImage, selectedFormat, quality, isDragging, reads>>

\* convertImage up to the await: the guard, setIsLoading(true), and the
\* Image whose onload closes over this render's selectedFormat and quality.
convertImage ==
    /\ TaskMayRun
    /\ called' = "convertImage"
    /\ link' = NULL
    /\ IF selectedImage = NULL
       THEN UNCHANGED <<state, conversions>>
       ELSE /\ isLoading' = TRUE
            /\ conversions' = Append(conversions,
                   [img |-> selectedImage, format |-> selectedFormat,
                    quality |-> quality, state |-> "decoding"])
            /\ UNCHANGED <<selectedImage, convertedImage, selectedFormat, quality, isDragging>>
    /\ UNCHANGED reads

\* ImgOnload reading the state current at completion instead of the values
\* its closure captured
ImgOnloadCurrentSettings(i, ctx) ==
    /\ TaskMayRun
    /\ conversions[i].state = "decoding"
    /\ Decodes(conversions[i].img)
    /\ IF ctx
       THEN /\ convertedImage' = toDataURL(selectedImage, MimeType(selectedFormat),
                                           QualityFactor(quality))
            /\ conversions' = [conversions EXCEPT ![i].state = "encoded"]
       ELSE /\ convertedImage' = convertedImage
            /\ conversions' = [conversions EXCEPT ![i].state = "skipped"]
    /\ NoButtonHandler
    /\ UNCHANGED <<selectedImage, isLoading, selectedFormat, quality, isDragging, reads>>

\* img.onload of the i-th conversion; ctx tells whether getContext('2d')
\* returned a context.  The callback ends by resolving the promise.
ImgOnload(i, ctx) ==
    /\ TaskMayRun
    /\ conversions[i].state = "decoding"
    /\ Decodes(conversions[i].img)
    /\ IF ctx
       THEN /\ convertedImage' = toDataURL(conversions[i].img,
                                           MimeType(conversions[i].format),
                                           QualityFactor(conversions[i].quality))
            /\ conversions' = [conversions EXCEPT ![i].state = "encoded"]
       ELSE /\ convertedImage' = convertedImage
            /\ conversions' = [conversions EXCEPT ![i].state = "skipped"]
    /\ NoButtonHandler
    /\ UNCHANGED <<selectedImage, isLoading, selectedFormat, quality, isDragging, reads>>

\* ImgError as if an onerror handler rejected the promise: the finally block
\* runs and clears the busy flag
ImgErrorSettles(i) ==
    /\ TaskMayRun
    /\ conversions[i].state = "decoding"
    /\ ~Decodes(conversions[i].img)
    /\ conversions' = [conversions EXCEPT ![i].state = "error"]
    /\ isLoading' = FALSE
    /\ NoButtonHandler
    /\ UNCHANGED <<selectedImage, convertedImage, selectedFormat, quality, isDragging, reads>>

\* The decode of the i-th conversion fails: img.onerror is not set, the
\* promise is never resolved or rejected.
ImgError(i) ==
    /\ TaskMayRun
    /\ conversions[i].state = "decoding"
    /\ ~Decodes(conversions[i].img)
    /\ conversions' = [conversions EXCEPT ![i].state = "error"]
    /\ NoButtonHandler
    /\ UNCHANGED <<state, reads>>

\* Finally without setIsLoading(false)
FinallyKeepsLoading(i) ==
    /\ conversions[i].state \in {"encoded", "skipped"}
    /\ conversions' = Remove(conversions, i)
    /\ NoButtonHandler
    /\ UNCHANGED <<state, reads>>

\* The continuation of the await of the i-th conversion: the finally block,
\* after which the call has returned.
Finally(i) ==
    /\ conversions[i].state \in {"encoded", "skipped"}
    /\ isLoading' = FALSE
    /\ conversions' = Remove(conversions, i)
    /\ NoButtonHandler
    /\ UNCHANGED <<selectedImage, convertedImage, selectedFormat, quality, isDragging, reads>>

(***************************************************************************)
(* Export.                                                                 *)
(***************************************************************************)
\* downloadImage without its guard on convertedImage
downloadImageUnguarded ==
    /\ TaskMayRun
    /\ called' = "downloadImage"
    /\ link' = [href |-> convertedImage, download |-> FileName(selectedFormat)]
    /\ UNCHANGED <<state, reads, conversions>>

\* downloadImage: the guard, then the anchor created, clicked and removed.
downloadImage ==
    /\ TaskMayRun
    /\ called' = "downloadImage"
    /\ IF convertedImage = NULL
       THEN link' = NULL
       ELSE link' = [href |-> convertedImage, download |-> FileName(selectedFormat)]
    /\ UNCHANGED <<state, reads, conversions>>

(***************************************************************************)
(* The rendered controls.                                                  *)
(***************************************************************************)
\* {selectedImage && (...)}: the preview section with the action buttons
PreviewRendered == selectedImage # NULL

\* ConvertButtonDisabled without the busy flag
ConvertButtonDisabledNoSource == selectedImage = NULL

\* disabled={isLoading || !selectedImage}
ConvertButtonDisabled == isLoading \/ selectedImage = NULL

\* {convertedImage && (<button onClick={downloadImage}>)}
DownloadButtonRendered == PreviewRendered /\ convertedImage # NULL

ClickConvert ==
    /\ PreviewRendered
    /\ ~ConvertButtonDisabled
    /\ convertImage

ClickDownload ==
    /\ DownloadButtonRendered
    /\ downloadImage

(***************************************************************************)
(* Specifications.                                                         *)
(***************************************************************************)
Callbacks ==
    \/ \E i \in 1..Len(reads) : ReaderOnload(i)
    \/ \E i \in 1..Len(conversions) : \E ctx \in BOOLEAN : ImgOnload(i, ctx)
    \/ \E i \in 1..Len(conversions) : ImgError(i)
    \/ \E i \in 1..Len(conversions) : Finally(i)

Gestures ==
    \/ handleImageSelect
    \/ handleDragEnter
    \/ handleDragLeave
    \/ handleDragOver
    \/ handleDrop
    \/ \E format \in ImageFormat : setSelectedFormat(format)
    \/ \E q \in Qualities : setQuality(q)

\* The component driven through its rendered controls.
Next == Gestures \/ Callbacks \/ ClickConvert \/ ClickDownload

Spec == Init /\ [][Next]_vars

\* The continuation of a resolved promise is always run.
FairSpec == Spec /\ WF_vars(\E i \in 1..Len(conversions) : Finally(i))

\* The handlers of the two buttons invoked while their button is not rendered.
CallConvert ==
    /\ ~PreviewRendered
    /\ convertImage

CallDownload ==
    /\ ~DownloadButtonRendered
    /\ downloadImage

\* The component driven through its rendered controls and by direct calls
\* of the handlers whose control is not rendered.
HandlerNext == Next \/ CallConvert \/ CallDownload

HandlerSpec == Init /\ [][HandlerNext]_vars

(***************************************************************************)
(* Properties.                                                             *)
(***************************************************************************)
\* The conversions whose decode has completed in this step with a context
\* (to = "encoded") or without one (to = "skipped")
Completes(i, to) ==
    /\ i \in 1..Len(conversions)
    /\ conversions[i].state = "decoding"
    /\ Len(conversions') = Len(conversions)
    /\ conversions'[i].state = to

\* The encoding of what the i-th conversion captured when it was invoked
CapturedEncoding(i) ==
    toDataURL(conversions[i].img, MimeType(conversions[i].format),
              QualityFactor(conversions[i].quality))

\* The i-th conversion's decode has failed
DecodeFailed(i) == conversions[i].state = "error"

HasFailed == \E i \in 1..Len(conversions) : DecodeFailed(i)

\* The file names of the three output formats, written out
LiteralFileName ==
    [jpeg |-> "converted-image.jpeg", jpg |-> "converted-image.jpg",
     png |-> "converted-image.png"]

\* C1: in every reachable state a Converted Image that is present was
\* encoded from the Source Image currently held, not from an earlier one.
C1_ConvertedFromCurrentSource ==
    convertedImage # NULL => convertedImage.img = selectedImage

\* C2: the step in which a file read completes leaves Source Image equal to
\* the data URL of the file just read and Converted Image absent, whatever
\* the state before.
C2_AcquisitionResets ==
    [][Len(reads') < Len(reads) =>
          \E i \in 1..Len(reads) :
              /\ reads' = Remove(reads, i)
              /\ selectedImage' = readAsDataURL(reads[i])
              /\ convertedImage' = NULL]_vars

\* A read has completed while a conversion of the previous source was in
\* flight (busy flag set) and after the format was changed.
C2_Witness ==
    /\ Len(conversions) = 1
    /\ isLoading
    /\ selectedImage = readAsDataURL("b.webp")
    /\ conversions[1].img = readAsDataURL("a.webp")
    /\ convertedImage = NULL
    /\ reads = <<>>
    /\ selectedFormat = "png"

\* C3: every export names the saved file with the format in which the
\* Converted Image it saves was encoded.
C3_ExportNamedByEncodedFormat ==
    link # NULL => link.download = FileName(FormatOf(link.href.type))

\* C4: an export of a Converted Image that was encoded under the format F
\* and quality Q still selected clicks one anchor, whose href is the
\* Converted Image and whose file name is literally converted-image.F.
C4_ExportFileName ==
    [][(/\ called' = "downloadImage"
        /\ convertedImage # NULL
        /\ convertedImage.type = MimeType(selectedFormat)
        /\ convertedImage.q = QualityFactor(quality))
       => /\ link' # NULL
          /\ link'.href = convertedImage
          /\ link'.download = LiteralFileName[FormatOf(convertedImage.type)]]_vars

\* A jpg conversion at the lowest quality has been exported under its own settings.
C4_Witness ==
    /\ called = "downloadImage"
    /\ link # NULL
    /\ link.href = convertedImage
    /\ link.href.type = "image/jpg"
    /\ link.href.q = QualityFactor(MinQuality)
    /\ selectedFormat = "jpg"
    /\ quality = MinQuality
    /\ link.download = "converted-image.jpg"

\* C5: an invocation of convertImage with no Source Image changes no state
\* of the component, leaves the busy flag false and starts no decode.
C5_ConvertWithoutSource ==
    [][(called' = "convertImage" /\ selectedImage = NULL)
       => /\ UNCHANGED <<state, reads, conversions>>
          /\ ~isLoading'
          /\ conversions' = <<>>]_vars

\* convertImage has just been invoked with no Source Image, a read pending
\* and the settings changed.
C5_Witness ==
    /\ called = "convertImage"
    /\ selectedImage = NULL
    /\ ~isLoading
    /\ conversions = <<>>
    /\ reads # <<>>
    /\ selectedFormat = "png"
    /\ quality = MinQuality
    /\ isDragging

\* C6: an invocation of downloadImage with no Converted Image changes no
\* state of the component and clicks no anchor.
C6_DownloadWithoutConverted ==
    [][(called' = "downloadImage" /\ convertedImage = NULL)
       => /\ UNCHANGED <<state, reads, conversions>>
          /\ link' = NULL]_vars

\* downloadImage has just been invoked with a Source Image and no Converted Image.
C6_Witness ==
    /\ called = "downloadImage"
    /\ convertedImage = NULL
    /\ selectedImage # NULL
    /\ link = NULL

\* C7: once the decode of a conversion has completed, with or without a
\* raster context, the busy flag is eventually false; a completion without
\* a context leaves Converted Image as it was.
C7_BusyCleared ==
    /\ ContinuationPending ~> ~isLoading
    /\ [][\A i \in 1..Len(conversions) :
             Completes(i, "skipped") => convertedImage' = convertedImage]_vars

\* A decode has completed without a context while an earlier Converted
\* Image is held, and the busy flag is still set.
C7_Witness ==
    /\ \E i \in 1..Len(conversions) : conversions[i].state = "skipped"
    /\ isLoading
    /\ convertedImage # NULL

\* C8: once the decode of a conversion has failed the busy flag is true and
\* stays true, the conversion stays unresolved, and no step writes a
\* Converted Image (a later acquisition can only clear it).
C8_DecodeFailureKeepsBusy ==
    /\ [](HasFailed => isLoading)
    /\ [][HasFailed =>
            /\ isLoading'
            /\ Len(conversions') = Len(conversions)
            /\ \A i \in 1..Len(conversions) :
                   DecodeFailed(i) => conversions'[i] = conversions[i]
            /\ convertedImage' \in {convertedImage, NULL}]_vars

\* After a failed decode a new acquisition has completed and format and
\* quality have been changed, and the busy flag is still set.
C8_Witness ==
    /\ HasFailed
    /\ isLoading
    /\ selectedImage = readAsDataURL("a.webp")
    /\ conversions[1].img = readAsDataURL("corrupt.webp")
    /\ selectedFormat # conversions[1].format
    /\ quality # conversions[1].quality

\* C9: a conversion captures Source Image, format and quality when it is
\* invoked, keeps them while the decode is pending whatever the user does,
\* can still complete, and on completion writes the encoding of the
\* captured source under the captured format and quality.
C9_UsesCapturedValues ==
    /\ [](\A i \in 1..Len(conversions) :
             (conversions[i].state = "decoding" /\ Decodes(conversions[i].img))
                 => ENABLED ImgOnload(i, TRUE))
    /\ [][/\ (called' = "convertImage" /\ selectedImage # NULL) =>
               /\ Len(conversions') = Len(conversions) + 1
               /\ conversions'[Len(conversions')].img = selectedImage
               /\ conversions'[Len(conversions')].format = selectedFormat
               /\ conversions'[Len(conversions')].quality = quality
          /\ \A i \in 1..Len(conversions) :
               Len(conversions') >= Len(conversions) =>
                   /\ conversions'[i].img = conversions[i].img
                   /\ conversions'[i].format = conversions[i].format
                   /\ conversions'[i].quality = conversions[i].quality
          /\ \A i \in 1..Len(conversions) :
               Completes(i, "encoded") => convertedImage' = CapturedEncoding(i)]_vars

\* A conversion has just completed after the source, the format and the
\* quality were all changed during its decode; Converted Image is the
\* encoding of the captured values.
C9_Witness ==
    \E i \in 1..Len(conversions) :
        /\ conversions[i].state = "encoded"
        /\ convertedImage = CapturedEncoding(i)
        /\ selectedImage # conversions[i].img
        /\ selectedFormat # conversions[i].format
        /\ quality # conversions[i].quality

\* C10: convertImage is never invoked while the busy flag is true, at most
\* one call of convertImage is unreturned at any time, and the busy flag is
\* true exactly when there is one.
C10_OneConversionInFlight ==
    /\ [](Len(conversions) <= 1 /\ (isLoading <=> Len(conversions) = 1))
    /\ [][called' = "convertImage" => ~isLoading]_vars

\* A second conversion is in flight after the first one produced a
\* Converted Image.
C10_Witness ==
    /\ isLoading
    /\ Len(conversions) = 1
    /\ conversions[1].state = "decoding"
    /\ convertedImage # NULL
    /\ convertedImage # CapturedEncoding(1)

====
